---------------------------- MODULE Spec2Model ----------------------------
(***************************************************************************)
(* Model of the AutoML wizard's tabular data pipeline (utils/dataUtils):   *)
(* parseCSV, analyzeColumns, calculateMedian, calculateMode, cleanData and *)
(* trainModel, each applied to inputs drawn from bounded sets.             *)
(*                                                                         *)
(* JavaScript values are modelled as records with a type tag:              *)
(*   number   a finite number, the rational n/d in lowest terms            *)
(*   Infinity (n = 1), -Infinity (n = -1), NaN   the non-finite numbers     *)
(*   string   a sequence of one-character strings                          *)
(*   null, undefined                                                       *)
(* An object (a DataRow) is the sequence of its own properties in          *)
(* Object.keys order.                                                      *)
(***************************************************************************)
EXTENDS Integers, Sequences, FiniteSets

VARIABLES
    pc,        \* "input" before the function under study ran, then its name
    csvText,   \* parseCSV's argument
    rows,      \* a DataRow[]: parseCSV's result; cleanData's and trainModel's argument
    stats,     \* cleanData's ColumnStat[] argument
    options,   \* cleanData's CleaningOptions argument
    cleaned,   \* cleanData's result
    fills,     \* the fillValue cleanData computed for each target column it filled
    config,    \* trainModel's target, features and splitRatio
    trainSet,  \* the trainData trainModel fitted on
    metrics,   \* trainModel's result
    app        \* the wizard: its step, pending file reads and timers, and the tips

vars == <<pc, csvText, rows, stats, options, cleaned, fills, config, trainSet, metrics, app>>

-----------------------------------------------------------------------------
(* Bounds of the model.                                                    *)

\* SpecParse: a text holds at most MaxFields comma- or newline-separated fields.
MaxFields == 4
\* SpecClean: a two-column table holds at most MaxRows rows.
MaxRows == 2
\* SpecColumn: a one-column table holds at most MaxColumnLen rows.
MaxColumnLen == 5
\* SpecLongColumn: a one-column table holds at most LongColumnLen rows.
LongColumnLen == 7
\* SpecTrain: a table holds at most MaxTrainRows rows.
MaxTrainRows == 3
\* SpecWizard: at most MaxReads file reads and MaxTimers training timers are pending.
MaxReads == 2
MaxTimers == 2
\* SpecParseChars: a text holds at most MaxChars characters.
MaxChars == 5
\* SpecCleanTwice: a two-column table holds at most MaxTwiceRows rows.
MaxTwiceRows == 3
\* SpecAnalyze: a one-column table holds at most MaxAnalyzeLen rows.
MaxAnalyzeLen == 6
\* Rows of a table, and entries of a target list, for cleaning in two orders.
MaxOrderRows == 2
MaxTargets == 2

-----------------------------------------------------------------------------
(* JavaScript values.                                                      *)

Abs(i) == IF i < 0 THEN -i ELSE i

RECURSIVE Gcd(_, _)
Gcd(a, b) == IF b = 0 THEN a ELSE Gcd(b, a % b)

Value(t, n, d, s) == [t |-> t, n |-> n, d |-> d, s |-> s]

\* The finite number n/d (d # 0), in lowest terms with a positive denominator.
Num(n, d) ==
    LET g == Gcd(Abs(n), Abs(d))
        sgn == IF d < 0 THEN -1 ELSE 1
    IN  Value("number", sgn * (n \div g), sgn * (d \div g), <<>>)

Number(n) == Value("number", n, 1, <<>>)
Infinity == Value("Infinity", 1, 1, <<>>)
NegInfinity == Value("Infinity", -1, 1, <<>>)
NaN == Value("NaN", 0, 1, <<>>)
Str(s) == Value("string", 0, 1, s)
Null == Value("null", 0, 1, <<>>)
Undefined == Value("undefined", 0, 1, <<>>)

\* typeof v === 'number'
IsNumber(v) == v.t \in {"number", "Infinity", "NaN"}

-----------------------------------------------------------------------------
(* Strings: String.prototype.trim, split, replace(/^"|"$/g, '') and        *)
(* parseFloat, on sequences of characters.                                 *)

Quote == "\""
Comma == ","
Newline == "\n"
WhiteSpace == {" ", "\t", "\r", "\n"}
Digits == <<"0", "1", "2", "3", "4", "5", "6", "7", "8", "9">>

IsDigit(c) == \E i \in 1..10 : Digits[i] = c
DigitValue(c) == (CHOOSE i \in 1..10 : Digits[i] = c) - 1

\* s.trim()
Trim(s) ==
    LET keep == {i \in 1..Len(s) : s[i] \notin WhiteSpace}
    IN  IF keep = {} THEN <<>>
        ELSE SubSeq(s, CHOOSE i \in keep : \A j \in keep : i <= j,
                       CHOOSE i \in keep : \A j \in keep : i >= j)

\* s.split(sep), sep one character: "" splits into one empty string.
RECURSIVE Split(_, _)
Split(s, sep) ==
    LET at == {i \in 1..Len(s) : s[i] = sep}
    IN  IF at = {} THEN <<s>>
        ELSE LET i == CHOOSE i \in at : \A j \in at : i <= j
             IN  <<SubSeq(s, 1, i - 1)>> \o Split(SubSeq(s, i + 1, Len(s)), sep)

\* s.replace(/^"|"$/g, ''): a leading quote goes, and a trailing quote goes;
\* each end on its own, whether or not the other end has one.
StripQuotes(s) ==
    LET a == IF Len(s) > 0 /\ s[1] = Quote THEN Tail(s) ELSE s
    IN  IF Len(a) > 0 /\ a[Len(a)] = Quote THEN SubSeq(a, 1, Len(a) - 1) ELSE a

\* The number of leading characters of s that are digits.
RECURSIVE DigitPrefix(_)
DigitPrefix(s) ==
    IF Len(s) > 0 /\ IsDigit(s[1]) THEN 1 + DigitPrefix(Tail(s)) ELSE 0

\* The value of a sequence of digits.
RECURSIVE DigitsValue(_)
DigitsValue(s) ==
    IF s = <<>> THEN 0 ELSE 10 * DigitsValue(SubSeq(s, 1, Len(s) - 1)) + DigitValue(s[Len(s)])

InfinityText == <<"I", "n", "f", "i", "n", "i", "t", "y">>

StartsWith(s, p) == Len(s) >= Len(p) /\ SubSeq(s, 1, Len(p)) = p

SkipLeadingSpace(s) ==
    LET keep == {i \in 1..Len(s) : s[i] \notin WhiteSpace}
    IN  IF keep = {} THEN <<>>
        ELSE SubSeq(s, CHOOSE i \in keep : \A j \in keep : i <= j, Len(s))

\* parseFloat(s): leading white space is skipped and the LONGEST PREFIX that is a
\* decimal literal is converted; what follows the prefix is ignored; NaN when no
\* prefix is one. The texts of the model hold no sign, decimal point or exponent,
\* so a literal is "Infinity" or a run of digits.
parseFloat(s) ==
    LET t == SkipLeadingSpace(s)
        k == DigitPrefix(t)
    IN  IF StartsWith(t, InfinityText) THEN Infinity
        ELSE IF k > 0 THEN Number(DigitsValue(SubSeq(t, 1, k)))
        ELSE NaN

\* isNaN(v), v a number
isNaN(v) == v.t = "NaN"

\* Number(s) (ToNumber of a string): the WHOLE trimmed text must be a literal;
\* the empty text is 0.
ToNumber(v) ==
    IF v.t = "string" THEN
        LET t == Trim(v.s)
        IN  IF t = <<>> THEN Number(0)
            ELSE IF t = InfinityText THEN Infinity
            ELSE IF DigitPrefix(t) = Len(t) THEN Number(DigitsValue(t))
            ELSE NaN
    ELSE IF v.t = "null" THEN Number(0)
    ELSE IF v.t = "undefined" THEN NaN
    ELSE v

\* The decimal digits of a natural number.
RECURSIVE NatText(_)
NatText(n) ==
    IF n < 10 THEN <<Digits[n + 1]>> ELSE NatText(n \div 10) \o <<Digits[(n % 10) + 1]>>

\* The digits of the fraction r/d (0 <= r < d), by long division, at most k of them.
RECURSIVE FracText(_, _, _)
FracText(r, d, k) ==
    IF r = 0 \/ k = 0 THEN <<>>
    ELSE <<Digits[((10 * r) \div d) + 1]>> \o FracText((10 * r) % d, d, k - 1)

\* String(v): the text of a value. A number that is not an integer is written
\* with its fraction digits (16 at most, where the expansion does not end).
StringOf(v) ==
    CASE v.t = "string" -> v.s
      [] v.t = "null" -> <<"n", "u", "l", "l">>
      [] v.t = "undefined" -> <<"u", "n", "d", "e", "f", "i", "n", "e", "d">>
      [] v.t = "NaN" -> <<"N", "a", "N">>
      [] v.t = "Infinity" -> (IF v.n < 0 THEN <<"-">> ELSE <<>>) \o InfinityText
      [] OTHER ->
            (IF v.n < 0 THEN <<"-">> ELSE <<>>)
            \o NatText(Abs(v.n) \div v.d)
            \o (IF v.d = 1 THEN <<>>
                ELSE <<".">> \o FracText(Abs(v.n) % v.d, v.d, 16))

-----------------------------------------------------------------------------
(* Objects: a DataRow is the sequence of its own properties [k, v] in the  *)
(* order Object.keys, JSON.stringify and spread enumerate them: array-index *)
(* keys ("0", "7", "12") first, ascending, then the other keys in the      *)
(* order they were first set.                                              *)

\* An array index: the canonical text of a natural number.
IsArrayIndex(k) ==
    /\ Len(k) > 0
    /\ DigitPrefix(k) = Len(k)
    /\ (Len(k) > 1 => k[1] # "0")

HasKey(o, k) == \E i \in 1..Len(o) : o[i].k = k

\* o[k]: undefined for a key the object does not own.
Get(o, k) ==
    IF HasKey(o, k) THEN o[CHOOSE i \in 1..Len(o) : o[i].k = k].v ELSE Undefined

\* Whether a new key k is enumerated before the existing key e.
KeyBefore(k, e) ==
    IF IsArrayIndex(k)
    THEN ~IsArrayIndex(e) \/ DigitsValue(k) < DigitsValue(e)
    ELSE FALSE

\* o[k] = v: an owned key keeps its place and takes the value; a new key is
\* placed by the enumeration order.
Put(o, k, v) ==
    IF HasKey(o, k)
    THEN [i \in 1..Len(o) |-> IF o[i].k = k THEN [k |-> k, v |-> v] ELSE o[i]]
    ELSE LET n == Cardinality({i \in 1..Len(o) : ~KeyBefore(k, o[i].k)})
         IN  SubSeq(o, 1, n) \o <<[k |-> k, v |-> v]>> \o SubSeq(o, n + 1, Len(o))

\* Object.keys(o)
Keys(o) == [i \in 1..Len(o) |-> o[i].k]

-----------------------------------------------------------------------------
(* parseCSV                                                                *)

MapFields(fs) == [i \in 1..Len(fs) |-> StripQuotes(Trim(fs[i]))]

\* The cell of one field text: parseFloat, and on NaN the text, or null for ''.
Cell(val) ==
    LET numVal == parseFloat(val)
    IN  IF isNaN(numVal) THEN (IF val = <<>> THEN Null ELSE Str(val)) ELSE numVal

\* headers.forEach((header, index) => row[header] = ...), from header index i on.
RECURSIVE BuildRow(_, _, _, _)
BuildRow(row, headers, values, i) ==
    IF i > Len(headers) THEN row
    ELSE BuildRow(Put(row, headers[i], Cell(values[i])), headers, values, i + 1)

\* The loop over lines[i], i >= 1 (the module's lines are numbered from 1).
RECURSIVE ParseLines(_, _, _)
ParseLines(lines, headers, i) ==
    IF i > Len(lines) THEN <<>>
    ELSE LET rowStr == Trim(lines[i])
             values == MapFields(Split(rowStr, Comma))
             rest == ParseLines(lines, headers, i + 1)
         IN  IF rowStr = <<>> THEN rest
             ELSE IF Len(values) = Len(headers)
                  THEN <<BuildRow(<<>>, headers, values, 1)>> \o rest
                  ELSE rest

\* A variant of parseCSV that splits csvText without trimming it.
parseCSVUntrimmed(text) ==
    LET lines == Split(text, Newline)
    IN  IF Len(lines) < 2 THEN <<>>
        ELSE ParseLines(lines, MapFields(Split(lines[1], Comma)), 2)

parseCSV(text) ==
    LET lines == Split(Trim(text), Newline)
    IN  IF Len(lines) < 2 THEN <<>>
        ELSE ParseLines(lines, MapFields(Split(lines[1], Comma)), 2)

-----------------------------------------------------------------------------
(* Arithmetic on numbers (IEEE 754 without rounding and without a signed   *)
(* zero: finite numbers are exact rationals).                              *)

Sign(i) == IF i < 0 THEN -1 ELSE IF i > 0 THEN 1 ELSE 0
SignedInfinity(sg) == IF sg < 0 THEN NegInfinity ELSE Infinity

Neg(a) ==
    IF a.t = "NaN" THEN NaN
    ELSE IF a.t = "Infinity" THEN SignedInfinity(-a.n)
    ELSE Num(-a.n, a.d)

Add(a, b) ==
    IF a.t = "NaN" \/ b.t = "NaN" THEN NaN
    ELSE IF a.t = "Infinity" /\ b.t = "Infinity" THEN (IF a.n = b.n THEN a ELSE NaN)
    ELSE IF a.t = "Infinity" THEN a
    ELSE IF b.t = "Infinity" THEN b
    ELSE Num(a.n * b.d + b.n * a.d, a.d * b.d)

Sub(a, b) == Add(a, Neg(b))

Mul(a, b) ==
    IF a.t = "NaN" \/ b.t = "NaN" THEN NaN
    ELSE IF a.t = "Infinity" \/ b.t = "Infinity"
         THEN (IF a.n = 0 \/ b.n = 0 THEN NaN ELSE SignedInfinity(Sign(a.n) * Sign(b.n)))
    ELSE Num(a.n * b.n, a.d * b.d)

\* A variant of Div whose quotient by zero is 0.
DivByZeroIsZero(a, b) ==
    IF a.t = "NaN" \/ b.t = "NaN" THEN NaN
    ELSE IF a.t = "Infinity"
         THEN (IF b.t = "Infinity" THEN NaN
               ELSE SignedInfinity(a.n * (IF b.n < 0 THEN -1 ELSE 1)))
    ELSE IF b.t = "Infinity" THEN Number(0)
    ELSE IF b.n = 0 THEN Number(0)
    ELSE Num(a.n * b.d, a.d * b.n)

Div(a, b) ==
    IF a.t = "NaN" \/ b.t = "NaN" THEN NaN
    ELSE IF a.t = "Infinity"
         THEN (IF b.t = "Infinity" THEN NaN
               ELSE SignedInfinity(a.n * (IF b.n < 0 THEN -1 ELSE 1)))
    ELSE IF b.t = "Infinity" THEN Number(0)
    ELSE IF b.n = 0 THEN (IF a.n = 0 THEN NaN ELSE SignedInfinity(a.n))
    ELSE Num(a.n * b.d, a.d * b.n)

\* a < b on numbers; false when either is NaN.
Less(a, b) ==
    IF a.t = "NaN" \/ b.t = "NaN" THEN FALSE
    ELSE IF a.t = "Infinity" THEN a.n < 0 /\ b # a
    ELSE IF b.t = "Infinity" THEN b.n > 0
    ELSE a.n * b.d < b.n * a.d

\* a + b of the language: text concatenation as soon as one side is a string.
JsAdd(a, b) ==
    IF a.t = "string" \/ b.t = "string"
    THEN Str(StringOf(a) \o StringOf(b))
    ELSE Add(ToNumber(a), ToNumber(b))

\* a / b of the language
JsDiv(a, b) == Div(ToNumber(a), ToNumber(b))

\* Math.floor of a finite number, as an integer.
Floor(a) == a.n \div a.d

-----------------------------------------------------------------------------
(* analyzeColumns                                                          *)

\* data.map(row => row[key])
Column(data, key) == [i \in 1..Len(data) |-> Get(data[i], key)]

\* val === null || val === undefined || val === ''
IsMissing(val) == val \in {Null, Undefined, Str(<<>>)}

NotMissing(val) == ~IsMissing(val)

Range(seq) == {seq[i] : i \in 1..Len(seq)}

\* A variant of ExceedsNumberShare that compares with >= .
ReachesNumberShare(numberCount, length) ==
    length > 0 /\ 10 * numberCount >= 8 * length

\* numberCount / values.length > 0.8; 0 / 0 is NaN, and NaN > 0.8 is false.
ExceedsNumberShare(numberCount, length) ==
    length > 0 /\ 10 * numberCount > 8 * length

analyzeColumn(data, key) ==
    LET values == SelectSeq(Column(data, key), NotMissing)
        numberCount == Len(SelectSeq(values, IsNumber))
    IN  [ name |-> key,
          type |-> IF ExceedsNumberShare(numberCount, Len(values)) THEN "number" ELSE "string",
          missingCount |-> Len(data) - Len(values),
          uniqueCount |-> Cardinality(Range(values)),
          sample |-> SubSeq(values, 1, IF Len(values) < 5 THEN Len(values) ELSE 5) ]

analyzeColumns(data) ==
    IF Len(data) = 0 THEN <<>>
    ELSE LET keys == Keys(data[1])
         IN  [i \in 1..Len(keys) |-> analyzeColumn(data, keys[i])]

-----------------------------------------------------------------------------
(* calculateMedian, calculateMode                                          *)

\* seq without its element at index i.
RemoveAt(seq, i) == SubSeq(seq, 1, i - 1) \o SubSeq(seq, i + 1, Len(seq))

\* [...values].sort((a, b) => a - b) where no a - b is NaN: ascending by
\* numeric value, equal values in their original order (the sort is stable).
RECURSIVE SortAscending(_)
SortAscending(values) ==
    IF values = <<>> THEN <<>>
    ELSE LET i == CHOOSE i \in 1..Len(values) :
                      /\ \A j \in 1..Len(values) :
                            ~Less(ToNumber(values[j]), ToNumber(values[i]))
                      /\ \A j \in 1..(i - 1) :
                            Less(ToNumber(values[i]), ToNumber(values[j]))
         IN  <<values[i]>> \o SortAscending(RemoveAt(values, i))

\* a - b is NaN as soon as one side is a text that is no number or is NaN: the
\* comparator then orders nothing consistently and the sorted order is whatever
\* the engine's sort makes of it.
ComparatorConsistent(values) ==
    \A i \in 1..Len(values) : ToNumber(values[i]).t # "NaN"

\* The orders a sort may leave in the two middle places: a pair <<i, j>> of
\* indexes of values, for sorted[mid - 1] and sorted[mid]. Only the middle
\* places are read.
MiddlePlaces(values) ==
    IF ComparatorConsistent(values) \/ Len(values) = 0 THEN {<<1, 1>>}
    ELSE IF Len(values) = 1 THEN {<<1, 1>>}
    ELSE {p \in (1..Len(values)) \X (1..Len(values)) : p[1] # p[2]}

\* calculateMedian; `places` tells the middle of the sorted copy where the
\* comparator orders nothing (one of MiddlePlaces of some column, brought into
\* the index range of this one), and is not read otherwise.
calculateMedian(values, places) ==
    IF Len(values) = 0 THEN Number(0)
    ELSE LET consistent == ComparatorConsistent(values)
             sorted == SortAscending(values)
             mid == Len(values) \div 2
             At(p) == values[((p - 1) % Len(values)) + 1]
             upper == IF consistent THEN sorted[mid + 1] ELSE At(places[2])
             lower == IF consistent THEN sorted[mid] ELSE At(places[1])
         IN  IF Len(values) % 2 # 0 THEN upper
             ELSE JsDiv(JsAdd(lower, upper), Number(2))

\* counts[k] after the loop's i-th step: the values among the first i whose
\* text is that of values[i].
CountAt(values, i) ==
    Cardinality({j \in 1..i : StringOf(values[j]) = StringOf(values[i])})

\* The loop of calculateMode from step i on, with its maxCount and mode.
RECURSIVE ModeLoop(_, _, _, _)
ModeLoop(values, i, maxCount, mode) ==
    IF i > Len(values) THEN mode
    ELSE IF CountAt(values, i) > maxCount
         THEN ModeLoop(values, i + 1, CountAt(values, i), values[i])
         ELSE ModeLoop(values, i + 1, maxCount, mode)

\* A variant of calculateMode whose loop compares with >= : among the values
\* that reach the maximal count, the last one wins.
calculateModeLastTie(values) ==
    IF Len(values) = 0 THEN Undefined
    ELSE LET top == CHOOSE n \in 1..Len(values) :
                        /\ \E i \in 1..Len(values) : CountAt(values, i) = n
                        /\ \A i \in 1..Len(values) : CountAt(values, i) <= n
             at == {i \in 1..Len(values) : CountAt(values, i) = top}
         IN  values[CHOOSE i \in at : \A j \in at : j <= i]

\* calculateMode: values[0] of an empty array is undefined.
calculateMode(values) ==
    ModeLoop(values, 1, 0, IF Len(values) = 0 THEN Undefined ELSE values[1])

-----------------------------------------------------------------------------
(* cleanData                                                               *)

Methods == {"drop_rows", "fill_mean", "fill_median", "fill_mode"}

\* row[col] === null || row[col] === ''
IsBlank(val) == val \in {Null, Str(<<>>)}

NotBlank(val) == ~IsBlank(val)

\* A variant of FindStat that falls back to the first stat when none has the name.
FindStatOrFirst(stats_, col) ==
    LET at == {i \in 1..Len(stats_) : stats_[i].name = col}
    IN  IF at = {} THEN (IF Len(stats_) > 0 THEN 1 ELSE 0)
        ELSE CHOOSE i \in at : \A j \in at : i <= j

\* stats.find(s => s.name === col): the index of the first such stat, 0 for none.
FindStat(stats_, col) ==
    LET at == {i \in 1..Len(stats_) : stats_[i].name = col}
    IN  IF at = {} THEN 0 ELSE CHOOSE i \in at : \A j \in at : i <= j

\* nums.reduce((a, b) => a + b, 0), from index i on with accumulator acc.
RECURSIVE Sum(_, _, _)
Sum(nums, i, acc) ==
    IF i > Len(nums) THEN acc ELSE Sum(nums, i + 1, JsAdd(acc, nums[i]))

\* The fillValue of one target column.
FillValue(stat, method, validValues, places) ==
    IF stat.type = "number"
    THEN IF method = "fill_mean"
         THEN JsDiv(Sum(validValues, 1, Number(0)), Number(Len(validValues)))
         ELSE IF method = "fill_median" THEN calculateMedian(validValues, places)
         ELSE calculateMode(validValues)
    ELSE calculateMode(validValues)

\* A variant of FillColumn that fills the blank cells of every column.
FillEveryColumn(data, col, fillValue) ==
    [i \in 1..Len(data) |->
        [j \in 1..Len(data[i]) |->
            IF IsBlank(data[i][j].v) THEN [k |-> data[i][j].k, v |-> fillValue]
            ELSE data[i][j]]]

\* cleaned.map(row => blank row[col] ? {...row, [col]: fillValue} : row)
FillColumn(data, col, fillValue) ==
    [i \in 1..Len(data) |->
        IF IsBlank(Get(data[i], col)) THEN Put(data[i], col, fillValue) ELSE data[i]]

\* options.targetColumns.forEach(col => ...), from target index i on: the rows
\* and the fill values computed so far (one entry per column that has a stat).
RECURSIVE FillColumns(_, _, _, _, _, _)
FillColumns(data, log, stats_, options_, places, i) ==
    IF i > Len(options_.targetColumns) THEN [rows |-> data, fills |-> log]
    ELSE LET col == options_.targetColumns[i]
             at == FindStat(stats_, col)
             validValues == SelectSeq(Column(data, col), NotBlank)
             fillValue == FillValue(stats_[at], options_.method, validValues, places)
         IN  IF at = 0 THEN FillColumns(data, log, stats_, options_, places, i + 1)
             ELSE FillColumns(FillColumn(data, col, fillValue),
                              Append(log, [col |-> col, value |-> fillValue]),
                              stats_, options_, places, i + 1)

\* The row is kept: no target column of it is blank.
KeptByDrop(row, targetColumns) ==
    ~\E i \in 1..Len(targetColumns) : IsBlank(Get(row, targetColumns[i]))

RECURSIVE Join(_, _)
Join(texts, sep) ==
    IF texts = <<>> THEN <<>>
    ELSE IF Len(texts) = 1 THEN texts[1]
    ELSE texts[1] \o sep \o Join(Tail(texts), sep)

\* The characters of a string inside a JSON text.
RECURSIVE JsonEscape(_)
JsonEscape(s_) ==
    IF s_ = <<>> THEN <<>>
    ELSE (CASE s_[1] = Quote -> <<"\\", Quote>>
            [] s_[1] = "\\" -> <<"\\", "\\">>
            [] s_[1] = "\n" -> <<"\\", "n">>
            [] s_[1] = "\r" -> <<"\\", "r">>
            [] s_[1] = "\t" -> <<"\\", "t">>
            [] OTHER -> <<s_[1]>>) \o JsonEscape(Tail(s_))

JsonString(s_) == <<Quote>> \o JsonEscape(s_) \o <<Quote>>

\* JSON.stringify of a cell: a number that is not finite is written null.
JsonValue(v) ==
    IF v.t = "string" THEN JsonString(v.s)
    ELSE IF v.t = "number" THEN StringOf(v)
    ELSE <<"n", "u", "l", "l">>

IsDefined(entry) == entry.v # Undefined

\* JSON.stringify(row): a property whose value is undefined is left out.
JsonStringify(row) ==
    LET kept == SelectSeq(row, IsDefined)
    IN  <<"{">>
        \o Join([i \in 1..Len(kept) |->
                    JsonString(kept[i].k) \o <<":">> \o JsonValue(kept[i].v)], <<",">>)
        \o <<"}">>

\* A variant of Dedupe that puts each kept row in front (unshift for push).
DedupeInFront(data) ==
    LET texts == [i \in 1..Len(data) |-> JsonStringify(data[i])]
        first == {i \in 1..Len(data) : \A j \in 1..(i - 1) : texts[j] # texts[i]}
        Nth(n) == CHOOSE i \in first : Cardinality({j \in first : j > i}) = n - 1
    IN  [n \in 1..Cardinality(first) |-> data[Nth(n)]]

\* The final pass: a row is kept when no earlier row has its JSON text.
Dedupe(data) ==
    LET texts == [i \in 1..Len(data) |-> JsonStringify(data[i])]
        first == {i \in 1..Len(data) : \A j \in 1..(i - 1) : texts[j] # texts[i]}
        Nth(n) == CHOOSE i \in first : Cardinality({j \in first : j < i}) = n - 1
    IN  [n \in 1..Cardinality(first) |-> data[Nth(n)]]

\* cleanData with the fill values it computed on the way.
CleanRun(data, stats_, options_, places) ==
    IF options_.method = "drop_rows"
    THEN LET Kept(row) == KeptByDrop(row, options_.targetColumns)
         IN  [rows |-> Dedupe(SelectSeq(data, Kept)), fills |-> <<>>]
    ELSE LET filled == FillColumns(data, <<>>, stats_, options_, places, 1)
         IN  [rows |-> Dedupe(filled.rows), fills |-> filled.fills]

cleanData(data, stats_, options_, places) == CleanRun(data, stats_, options_, places).rows

-----------------------------------------------------------------------------
(* trainModel                                                              *)

\* typeof row[target] === 'number' && features.every(f => typeof row[f] === 'number')
IsValidRow(row, target, features) ==
    /\ IsNumber(Get(row, target))
    /\ \A i \in 1..Len(features) : IsNumber(Get(row, features[i]))

\* A variant of SplitIndex that rounds up: Math.ceil(validData.length * splitRatio)
SplitIndexCeil(length, splitRatio) == -Floor(Neg(Mul(Number(length), splitRatio)))

\* Math.floor(validData.length * splitRatio)
SplitIndex(length, splitRatio) == Floor(Mul(Number(length), splitRatio))

IsFinite(v) == v.t = "number"

\* The fit. Normalisation, 500 epochs of gradient descent and denormalisation
\* make the prediction an affine function of the feature cells,
\*     predicted = bias + SUM over f of weight[f] * row[f],
\* whose coefficients are floating-point results no integer carries: they are
\* drawn from Coefficients. Two cases follow from the code's arithmetic alone:
\* with no training row every mean is 0 / 0 and every prediction is NaN; with a
\* training cell that is not finite the means and the updates are infinite or
\* NaN, and so is every prediction.
Coefficients == {Number(0), Number(1), Number(2)}

ConstantPredictor(features, value) ==
    [bias |-> value, weight |-> [i \in 1..Len(features) |-> Number(0)]]

Predictors(trainData, target, features) ==
    IF trainData = <<>> THEN {ConstantPredictor(features, NaN)}
    ELSE IF \E i \in 1..Len(trainData) :
               \/ ~IsFinite(Get(trainData[i], target))
               \/ \E j \in 1..Len(features) : ~IsFinite(Get(trainData[i], features[j]))
    THEN {ConstantPredictor(features, v) : v \in {NaN, Infinity, NegInfinity}}
    ELSE {[bias |-> b, weight |-> w] :
             b \in Coefficients, w \in [1..Len(features) -> Coefficients]}

\* denormalize(normalizedPred, target) for one test row.
RECURSIVE Predict(_, _, _, _)
Predict(row, features, predictor, i) ==
    IF i > Len(features) THEN predictor.bias
    ELSE Add(Mul(predictor.weight[i], Get(row, features[i])),
             Predict(row, features, predictor, i + 1))

AbsValue(a) == IF a.t = "NaN" THEN NaN ELSE IF a.n < 0 THEN Neg(a) ELSE a

Square(a) == Mul(a, a)

\* values.reduce((a, v) => a + Math.pow(v - about, 2), 0), from index i on.
RECURSIVE SumSquares(_, _, _)
SumSquares(values, about, i) ==
    IF i > Len(values) THEN Number(0)
    ELSE Add(Square(Sub(values[i], about)), SumSquares(values, about, i + 1))

RECURSIVE SumAbs(_, _)
SumAbs(values, i) ==
    IF i > Len(values) THEN Number(0)
    ELSE Add(AbsValue(values[i]), SumAbs(values, i + 1))

RECURSIVE SumOf(_, _)
SumOf(values, i) ==
    IF i > Len(values) THEN Number(0) ELSE Add(values[i], SumOf(values, i + 1))

\* trainModel with the training set it fitted on.
TrainRun(data, target, features, splitRatio, predictor) ==
    LET Valid(row) == IsValidRow(row, target, features)
        validData == SelectSeq(data, Valid)
        splitIndex == SplitIndex(Len(validData), splitRatio)
        trainData == SubSeq(validData, 1, splitIndex)
        testData == SubSeq(validData, splitIndex + 1, Len(validData))
        predictions == [i \in 1..Len(testData) |->
                          [ actual |-> Get(testData[i], target),
                            predicted |-> Predict(testData[i], features, predictor, 1) ]]
        errors == [i \in 1..Len(testData) |->
                      Sub(predictions[i].actual, predictions[i].predicted)]
        actuals == [i \in 1..Len(testData) |-> predictions[i].actual]
        sumSquaredError == SumSquares(errors, Number(0), 1)
        sumAbsError == SumAbs(errors, 1)
        n == Number(Len(testData))
        targetMean == Div(SumOf(actuals, 1), n)
        totalVariance == SumSquares(actuals, targetMean, 1)
    IN  [ trainData |-> trainData,
          metrics |-> [ mse |-> Div(sumSquaredError, n),
                        mae |-> Div(sumAbsError, n),
                        r2 |-> Sub(Number(1), Div(sumSquaredError, totalVariance)),
                        predictions |-> predictions ] ]

trainModel(data, target, features, splitRatio, predictor) ==
    TrainRun(data, target, features, splitRatio, predictor).metrics

-----------------------------------------------------------------------------
(* The inputs.                                                             *)

ColA == <<"a">>
ColB == <<"b">>

\* The field texts a CSV text is made of: empty, a name, a number, a number
\* followed by a letter, a padded quoted name, and a quoted empty field.
FieldTexts ==
    { <<>>, <<"a">>, <<"1">>, <<"1", "a">>, <<" ", Quote, "a", Quote, " ">>,
      <<Quote, Quote>> }

Separators == {Comma, Newline}

\* The texts of exactly k fields.
RECURSIVE TextsOf(_)
TextsOf(k) ==
    IF k = 1 THEN FieldTexts
    ELSE {t \o <<sep>> \o f : t \in TextsOf(k - 1), sep \in Separators, f \in FieldTexts}

CsvTexts == UNION {TextsOf(k) : k \in 1..MaxFields}

Row1(a) == <<[k |-> ColA, v |-> a]>>
Row2(a, b) == <<[k |-> ColA, v |-> a], [k |-> ColB, v |-> b]>>

SeqsUpTo(S, n) == UNION {[1..k -> S] : k \in 0..n}

\* Every text over a letter, a digit, the comma, the newline and the space.
Chars == {"a", "1", Comma, Newline, " "}

CharTexts == SeqsUpTo(Chars, MaxChars)

\* Two-column tables as parseCSV returns them, and '' as a caller may pass it.
TableRows ==
    {Row2(a, b) : a \in {Number(1), Infinity, Null, Str(<<>>)}, b \in {Number(2), Null}}

Tables == SeqsUpTo(TableRows, MaxRows)

\* One-column tables. The long ones hold a column of five numbers and one text
\* (more than 0.8 of it numbers) with a missing cell.
ColumnRows == {Row1(a) : a \in {Number(1), Str(<<"x">>), Null}}

Columns == SeqsUpTo(ColumnRows, MaxColumnLen)
LongColumns == SeqsUpTo(ColumnRows, LongColumnLen)

\* Two-column tables for cleaning twice: long enough to lose a row and keep two.
TwiceRows == {Row2(a, b) : a \in {Number(1), Infinity, Null}, b \in {Number(2), Null}}

TwiceTables == SeqsUpTo(TwiceRows, MaxTwiceRows)

\* Two-column tables for cleaning in two orders, a column of numbers and a
\* column of texts: both may be blank, and the target lists name a column once,
\* twice or not at all.
OrderRows ==
    {Row2(a, b) : a \in {Number(1), Null}, b \in {Str(<<"x">>), Null}}

OrderTables == SeqsUpTo(OrderRows, MaxOrderRows)

OrderTargetLists == SeqsUpTo({ColA, ColB}, MaxTargets)

\* One-column tables for analyzeColumns: numbers, texts, null and ''.
AnalyzeRows == {Row1(a) : a \in {Number(1), Str(<<"x">>), Null, Str(<<>>)}}

AnalyzeTables == SeqsUpTo(AnalyzeRows, MaxAnalyzeLen)

\* The sub-sequences of a sequence of at most two elements.
SubSeqs(seq) ==
    {<<>>, seq} \cup {<<seq[i]>> : i \in 1..Len(seq)}

TargetLists == {<<>>, <<ColA>>, <<ColB>>, <<ColA, ColB>>, <<ColB, ColA>>}

\* The CSV of the regression scenario: b = 2a on five rows.
ScenarioCsv ==
    << "a", ",", "b", "\n", "1", ",", "2", "\n", "2", ",", "4", "\n",
       "3", ",", "6", "\n", "4", ",", "8", "\n", "5", ",", "1", "0" >>

TrainRows ==
    {Row2(a, b) : a \in {Number(1), Infinity, Str(<<"x">>)}, b \in {Number(1), Number(2), Null}}

TrainTables == SeqsUpTo(TrainRows, MaxTrainRows) \cup {parseCSV(ScenarioCsv)}

\* The slider's 0.5 and its default 0.8.
SplitRatios == {Num(1, 2), Num(4, 5)}

Configs ==
    { [targetColumn |-> t, featureColumns |-> f, splitRatio |-> r] :
        t \in {ColB}, f \in {<<ColA>>}, r \in SplitRatios }
    \cup
    { [targetColumn |-> ColA, featureColumns |-> <<ColB>>, splitRatio |-> Num(4, 5)] }

-----------------------------------------------------------------------------
(* The specifications: each draws the arguments of one function and        *)
(* applies it.                                                             *)

None == <<>>
NoOptions == [method |-> "fill_mean", targetColumns |-> <<>>]
NoConfig == [targetColumn |-> <<>>, featureColumns |-> <<>>, splitRatio |-> Num(4, 5)]
NoMetrics == [mse |-> NaN, mae |-> NaN, r2 |-> NaN, predictions |-> <<>>]

\* AppStep
UPLOAD == 0
CLEANING == 1
CONFIGURATION == 2
MODEL_SELECTION == 3
RESULTS == 4

\* The wizard after useState: no file read, no timer, no tips call. tipsCall is
\* the promise of generateMLTips and remote the promise of generateContent.
NewApp(apiKey) ==
    [ currentStep |-> UPLOAD, reads |-> {}, isTraining |-> FALSE, timers |-> <<>>,
      hasMetrics |-> FALSE, geminiTips |-> "null", isLoadingTips |-> FALSE,
      tipsCall |-> "none", tipsValue |-> "null", apiKey |-> apiKey,
      remote |-> "none" ]

Idle ==
    /\ pc = "input"
    /\ app = NewApp(FALSE)
    /\ cleaned = None /\ fills = None /\ trainSet = None /\ metrics = NoMetrics

InitParse ==
    /\ Idle
    /\ csvText \in CsvTexts
    /\ rows = None /\ stats = None /\ options = NoOptions /\ config = NoConfig

InitParseChars ==
    /\ Idle
    /\ csvText \in CharTexts
    /\ rows = None /\ stats = None /\ options = NoOptions
    /\ config = NoConfig

InitClean ==
    /\ Idle
    /\ csvText = <<>>
    /\ rows \in Tables
    /\ stats \in SubSeqs(analyzeColumns(rows))
    /\ options \in [method : Methods, targetColumns : TargetLists]
    /\ config = NoConfig

InitColumnIn(tables) ==
    /\ Idle
    /\ csvText = <<>>
    /\ rows \in tables
    /\ stats = analyzeColumns(rows)
    /\ options \in [method : Methods, targetColumns : {<<ColA>>}]
    /\ config = NoConfig

InitColumn == InitColumnIn(Columns)
InitLongColumn == InitColumnIn(LongColumns)

InitCleanTwice ==
    /\ Idle
    /\ csvText = <<>>
    /\ rows \in TwiceTables
    /\ stats \in SubSeqs(analyzeColumns(rows))
    /\ options \in [method : Methods, targetColumns : {<<>>, <<ColB>>}]
    /\ config = NoConfig

InitCleanOrder ==
    /\ Idle
    /\ csvText = <<>>
    /\ rows \in OrderTables
    /\ stats \in SubSeqs(analyzeColumns(rows))
    /\ options \in [method : Methods, targetColumns : OrderTargetLists]
    /\ config = NoConfig

InitAnalyze ==
    /\ Idle
    /\ csvText = <<>>
    /\ rows \in AnalyzeTables
    /\ stats = None /\ options = NoOptions
    /\ config = NoConfig

InitTrain ==
    /\ Idle
    /\ csvText = <<>>
    /\ rows \in TrainTables
    /\ stats = None /\ options = NoOptions
    /\ config \in Configs

\* rows = parseCSV(csvText)
Parse ==
    /\ pc = "input"
    /\ pc' = "parseCSV"
    /\ rows' = parseCSV(csvText)
    /\ UNCHANGED <<app, csvText, stats, options, cleaned, fills, config, trainSet, metrics>>

\* The CSV text of a row set: a header line of the first row's keys and one
\* line per row, fields joined by commas and lines by newlines; null is the
\* empty field, a number or a string is its text. No row gives the empty text.
SerializeCell(v) == IF v = Null THEN <<>> ELSE StringOf(v)

SerializeRow(row) == Join([i \in 1..Len(row) |-> SerializeCell(row[i].v)], <<Comma>>)

Serialize(data) ==
    IF data = <<>> THEN <<>>
    ELSE Join(<<Join(Keys(data[1]), <<Comma>>)>>
                  \o [i \in 1..Len(data) |-> SerializeRow(data[i])],
              <<Newline>>)

\* rows = parseCSV(serialization of the rows parsed from csvText)
Reparse ==
    /\ pc = "parseCSV"
    /\ pc' = "reparsed"
    /\ rows' = parseCSV(Serialize(rows))
    /\ UNCHANGED <<app, csvText, stats, options, cleaned, fills, config, trainSet, metrics>>

\* stats = analyzeColumns(rows), of rows given or parsed
Analyze ==
    /\ pc \in {"input", "parseCSV"}
    /\ pc' = "analyzeColumns"
    /\ stats' = analyzeColumns(rows)
    /\ UNCHANGED <<app, csvText, rows, options, cleaned, fills, config, trainSet, metrics>>

\* The middle places a sort may produce for the median of a target column.
CleanPlaces ==
    IF options.method # "fill_median" THEN {<<1, 1>>}
    ELSE UNION { MiddlePlaces(SelectSeq(Column(rows, options.targetColumns[i]), NotBlank)) :
                   i \in 1..Len(options.targetColumns) } \cup {<<1, 1>>}

\* cleaned = cleanData(rows, stats, options)
Clean ==
    /\ pc = "input"
    /\ pc' = "cleanData"
    /\ \E places \in CleanPlaces :
          LET run == CleanRun(rows, stats, options, places)
          IN  cleaned' = run.rows /\ fills' = run.fills
    /\ UNCHANGED <<app, csvText, rows, stats, options, config, trainSet, metrics>>

\* The target lists that name the columns of a list in another order or
\* another number of times.
OtherOrders(targetColumns) ==
    {other \in OrderTargetLists : Range(other) = Range(targetColumns)} \ {targetColumns}

\* cleaned = cleanData(rows, stats, {...options, targetColumns: other}) on the
\* same rows and the same engine: a sort of the same array leaves the same
\* order, so the run reads the places the first run read.
CleanReordered ==
    /\ pc = "cleanData"
    /\ pc' = "cleanedReordered"
    /\ \E other \in OtherOrders(options.targetColumns), places \in CleanPlaces :
          /\ CleanRun(rows, stats, options, places) = [rows |-> cleaned, fills |-> fills]
          /\ options' = [options EXCEPT !.targetColumns = other]
          /\ LET run == CleanRun(rows, stats, options', places)
             IN  cleaned' = run.rows /\ fills' = run.fills
    /\ UNCHANGED <<app, csvText, rows, stats, config, trainSet, metrics>>

\* cleaned = cleanData(cleaned, stats, options): cleanData on its own result
CleanAgain ==
    /\ pc = "cleanData"
    /\ pc' = "cleanedAgain"
    /\ \E places \in CleanPlaces :
          LET run == CleanRun(cleaned, stats, options, places)
          IN  cleaned' = run.rows /\ fills' = run.fills
    /\ UNCHANGED <<app, csvText, rows, stats, options, config, trainSet, metrics>>

\* metrics = trainModel(rows, target, features, splitRatio)
Train ==
    /\ pc = "input"
    /\ pc' = "trainModel"
    /\ LET Valid(row) == IsValidRow(row, config.targetColumn, config.featureColumns)
           validData == SelectSeq(rows, Valid)
           trainData == SubSeq(validData, 1, SplitIndex(Len(validData), config.splitRatio))
       IN  \E predictor \in Predictors(trainData, config.targetColumn, config.featureColumns) :
              LET run == TrainRun(rows, config.targetColumn, config.featureColumns,
                                  config.splitRatio, predictor)
              IN  trainSet' = run.trainData /\ metrics' = run.metrics
    /\ UNCHANGED <<app, csvText, rows, stats, options, cleaned, fills, config>>

-----------------------------------------------------------------------------
(* The wizard (App): rows, cleaned, stats, options, config and metrics are  *)
(* its rawData, cleanedData, columnStats, cleaningOptions, modelConfig and  *)
(* metrics; app holds the rest. A handler reads the state of the latest     *)
(* render; a timer callback reads the state its handler captured.           *)

\* The files a user may select: a table with a missing cell, another table,
\* and a header without data.
WizardFiles ==
    { << "a", ",", "b", "\n", "1", ",", "2", "\n", ",", "4" >>,
      << "b", "\n", "3" >>,
      << "a" >> }

WizardMethods == {"fill_mean", "drop_rows"}

\* What generateContent's response.text may be: a text, '' or undefined.
RemoteTexts == {"- a tip", "", "undefined"}

MissingKeyText ==
    "API Key is missing. Please configure the environment variable to receive AI tips."
NoTipsText == "No tips could be generated at this time."
ApiErrorText == "Failed to generate tips due to an API error."

InitWizard ==
    /\ pc = "wizard"
    /\ app = NewApp(TRUE)
    /\ csvText = <<>>
    /\ rows = None /\ cleaned = None /\ stats = None /\ fills = None /\ trainSet = None
    /\ options = NoOptions
    /\ config = NoConfig
    /\ metrics = NoMetrics

WizardData == <<csvText, rows, stats, options, cleaned, fills, config, trainSet, metrics>>

\* handleFileUpload: reader.readAsText(file)
SelectFile ==
    /\ app.currentStep = UPLOAD
    /\ Cardinality(app.reads) < MaxReads
    /\ \E file \in WizardFiles \ app.reads :
          app' = [app EXCEPT !.reads = @ \cup {file}]
    /\ UNCHANGED <<pc, WizardData>>

\* handleFileUpload: reader.onload
FileLoaded ==
    \E file \in app.reads :
        LET parsed == parseCSV(file)
        IN  /\ csvText' = file
            /\ IF Len(parsed) > 0
               THEN /\ rows' = parsed
                    /\ cleaned' = parsed
                    /\ stats' = analyzeColumns(parsed)
                    /\ app' = [app EXCEPT !.reads = @ \ {file}, !.currentStep = CLEANING]
               ELSE /\ app' = [app EXCEPT !.reads = @ \ {file}]
                    /\ UNCHANGED <<rows, cleaned, stats>>
            /\ UNCHANGED <<pc, options, fills, config, trainSet, metrics>>

\* StepCleaning: the method select
SetMethod ==
    /\ app.currentStep = CLEANING
    /\ \E method \in WizardMethods \ {options.method} :
          options' = [options EXCEPT !.method = method]
    /\ UNCHANGED <<pc, app, csvText, rows, stats, cleaned, fills, config, trainSet, metrics>>

\* StepCleaning: the checkbox of a column with missing values
ToggleCleanTarget ==
    /\ app.currentStep = CLEANING
    /\ \E i \in 1..Len(stats) :
          /\ stats[i].missingCount > 0
          /\ options' =
                [options EXCEPT !.targetColumns =
                    IF stats[i].name \in Range(@)
                    THEN LET Other(n) == n # stats[i].name IN SelectSeq(@, Other)
                    ELSE Append(@, stats[i].name)]
    /\ UNCHANGED <<pc, app, csvText, rows, stats, cleaned, fills, config, trainSet, metrics>>

\* handleCleanData
ApplyClean ==
    /\ app.currentStep = CLEANING
    /\ \E places \in CleanPlaces :
          LET run == CleanRun(rows, stats, options, places)
          IN  /\ cleaned' = run.rows
              /\ fills' = run.fills
              /\ stats' = analyzeColumns(run.rows)
    /\ app' = [app EXCEPT !.currentStep = CONFIGURATION]
    /\ UNCHANGED <<pc, csvText, rows, options, config, trainSet, metrics>>

NumberColumnNames == {stats[i].name : i \in {j \in 1..Len(stats) : stats[j].type = "number"}}

\* StepConfiguration: the target select
SelectTarget ==
    /\ app.currentStep = CONFIGURATION
    /\ \E c \in (NumberColumnNames \cup {<<>>}) \ {config.targetColumn} :
          config' = [config EXCEPT !.targetColumn = c]
    /\ UNCHANGED <<pc, app, csvText, rows, stats, options, cleaned, fills, trainSet, metrics>>

\* StepConfiguration: the checkbox of a number column other than the target
ToggleFeature ==
    /\ app.currentStep = CONFIGURATION
    /\ \E c \in NumberColumnNames \ {config.targetColumn} :
          config' =
              [config EXCEPT !.featureColumns =
                  IF c \in Range(@)
                  THEN LET Other(f) == f # c IN SelectSeq(@, Other)
                  ELSE Append(@, c)]
    /\ UNCHANGED <<pc, app, csvText, rows, stats, options, cleaned, fills, trainSet, metrics>>

\* StepConfiguration: the split slider
SetSplitRatio ==
    /\ app.currentStep = CONFIGURATION
    /\ \E r \in SplitRatios \ {config.splitRatio} :
          config' = [config EXCEPT !.splitRatio = r]
    /\ UNCHANGED <<pc, app, csvText, rows, stats, options, cleaned, fills, trainSet, metrics>>

\* StepConfiguration: Next Step, disabled without a target or without a feature
NextStep ==
    /\ app.currentStep = CONFIGURATION
    /\ config.targetColumn # <<>> /\ config.featureColumns # <<>>
    /\ app' = [app EXCEPT !.currentStep = MODEL_SELECTION]
    /\ UNCHANGED <<pc, WizardData>>

\* handleTrain up to setTimeout; the callback keeps the handler's cleanedData
\* and modelConfig. Without a target or a feature it alerts and returns.
StartTraining ==
    /\ app.currentStep = MODEL_SELECTION
    /\ Len(app.timers) < MaxTimers
    /\ IF config.targetColumn = <<>> \/ config.featureColumns = <<>>
       THEN UNCHANGED app
       ELSE app' = [app EXCEPT !.isTraining = TRUE,
                               !.timers = Append(@, [data |-> cleaned, config |-> config])]
    /\ UNCHANGED <<pc, WizardData>>

\* handleTrain: the timer's callback; timers of one delay fire in order.
TimerFires ==
    /\ app.timers # <<>>
    /\ LET run == Head(app.timers)
           Valid(row) == IsValidRow(row, run.config.targetColumn, run.config.featureColumns)
           validData == SelectSeq(run.data, Valid)
           trainData == SubSeq(validData, 1, SplitIndex(Len(validData), run.config.splitRatio))
       IN  \E predictor \in
                 Predictors(trainData, run.config.targetColumn, run.config.featureColumns) :
              LET result == TrainRun(run.data, run.config.targetColumn,
                                     run.config.featureColumns, run.config.splitRatio,
                                     predictor)
              IN  trainSet' = result.trainData /\ metrics' = result.metrics
    /\ app' = [app EXCEPT !.timers = Tail(@), !.hasMetrics = TRUE,
                          !.currentStep = RESULTS, !.isTraining = FALSE]
    /\ UNCHANGED <<pc, csvText, rows, stats, options, cleaned, fills, config>>

\* Number.prototype.toFixed is a method of numbers only.
HasToFixed(v) == v.t \in {"number", "NaN", "Infinity"}

\* handleGetTips up to its await, with generateMLTips up to its first return
\* or await. The button shows while geminiTips is null or '' and is disabled
\* while isLoadingTips. The prompt is built outside the try block: a metric
\* without toFixed rejects the promise.
GetTips ==
    /\ app.currentStep = RESULTS
    /\ app.hasMetrics
    /\ app.geminiTips \in {"null", ""}
    /\ ~app.isLoadingTips
    /\ app' = IF ~app.apiKey
              THEN [app EXCEPT !.isLoadingTips = TRUE, !.tipsCall = "settled",
                               !.tipsValue = MissingKeyText, !.remote = "none"]
              ELSE IF HasToFixed(metrics.r2) /\ HasToFixed(metrics.mse)
              THEN [app EXCEPT !.isLoadingTips = TRUE, !.tipsCall = "pending",
                               !.remote = "pending"]
              ELSE [app EXCEPT !.isLoadingTips = TRUE, !.tipsCall = "rejected",
                               !.remote = "none"]
    /\ UNCHANGED <<pc, WizardData>>

\* generateMLTips: generateContent resolves; response.text ?? fallback
RemoteResponds ==
    /\ app.remote = "pending"
    /\ \E text \in RemoteTexts :
          app' = [app EXCEPT !.remote = "fulfilled", !.tipsCall = "settled",
                             !.tipsValue = IF text = "undefined" THEN NoTipsText ELSE text]
    /\ UNCHANGED <<pc, WizardData>>

\* generateContent rejects and nothing catches it.
RemoteFailsUncaught ==
    /\ app.remote = "pending"
    /\ app' = [app EXCEPT !.remote = "rejected", !.tipsCall = "rejected"]
    /\ UNCHANGED <<pc, WizardData>>

\* generateMLTips: generateContent rejects; the catch block
RemoteFails ==
    /\ app.remote = "pending"
    /\ app' = [app EXCEPT !.remote = "rejected", !.tipsCall = "settled",
                          !.tipsValue = ApiErrorText]
    /\ UNCHANGED <<pc, WizardData>>

\* handleGetTips after its await
TipsReturn ==
    /\ app.tipsCall = "settled"
    /\ app' = [app EXCEPT !.tipsCall = "none", !.geminiTips = app.tipsValue,
                          !.tipsValue = "null", !.isLoadingTips = FALSE]
    /\ UNCHANGED <<pc, WizardData>>

\* StepResults: Start Over, window.location.reload()
StartOver ==
    /\ app.currentStep = RESULTS
    /\ app.hasMetrics
    /\ app' = NewApp(app.apiKey)
    /\ csvText' = <<>>
    /\ rows' = None /\ cleaned' = None /\ stats' = None /\ fills' = None /\ trainSet' = None
    /\ options' = NoOptions
    /\ config' = NoConfig
    /\ metrics' = NoMetrics
    /\ UNCHANGED pc

\* The wizard from the upload to the results.
NextWizard ==
    \/ SelectFile \/ FileLoaded
    \/ SetMethod \/ ToggleCleanTarget \/ ApplyClean
    \/ SelectTarget \/ ToggleFeature \/ SetSplitRatio \/ NextStep
    \/ StartTraining \/ TimerFires
    \/ StartOver

SpecWizard == InitWizard /\ [][NextWizard]_vars

\* The wizard on its results step, after a training on the scenario's table.
InitTips ==
    /\ pc = "wizard"
    /\ csvText = ScenarioCsv
    /\ rows = parseCSV(ScenarioCsv) /\ cleaned = rows
    /\ stats = analyzeColumns(rows)
    /\ fills = None
    /\ options = NoOptions
    /\ config \in { [targetColumn |-> ColB, featureColumns |-> <<ColA>>, splitRatio |-> r] :
                       r \in SplitRatios }
    /\ \E predictor \in Coefficients \X Coefficients :
          LET run == TrainRun(rows, config.targetColumn, config.featureColumns,
                              config.splitRatio,
                              [bias |-> predictor[1], weight |-> <<predictor[2]>>])
          IN  trainSet = run.trainData /\ metrics = run.metrics
    /\ app \in { [NewApp(key) EXCEPT !.currentStep = RESULTS, !.hasMetrics = TRUE] :
                    key \in BOOLEAN }

NextTips == GetTips \/ RemoteResponds \/ RemoteFails \/ TipsReturn

\* The remote call settles, and a settled promise's continuation runs.
SpecTips ==
    /\ InitTips /\ [][NextTips]_vars
    /\ WF_vars(RemoteResponds \/ RemoteFails)
    /\ WF_vars(TipsReturn)

NextParse == Parse
NextClean == Clean
NextTrain == Train
NextAnalyze == Analyze
NextProfile == Parse \/ Analyze
NextRoundTrip == Parse \/ Reparse
NextCleanTwice == Clean \/ CleanAgain

SpecParse == InitParse /\ [][NextParse]_vars
SpecParseChars == InitParseChars /\ [][NextParse]_vars
SpecClean == InitClean /\ [][NextClean]_vars
SpecColumn == InitColumn /\ [][NextClean]_vars
SpecLongColumn == InitLongColumn /\ [][NextClean]_vars
SpecTrain == InitTrain /\ [][NextTrain]_vars
SpecAnalyze == InitAnalyze /\ [][NextAnalyze]_vars
SpecProfile == InitParse /\ [][NextProfile]_vars
SpecRoundTrip == InitParse /\ [][NextRoundTrip]_vars
SpecCleanTwice == InitCleanTwice /\ [][NextCleanTwice]_vars

NextCleanOrder == Clean \/ CleanReordered
SpecCleanOrder == InitCleanOrder /\ [][NextCleanOrder]_vars

-----------------------------------------------------------------------------
(* parseCSV: the claims.                                                   *)

\* The lines of a text, the header's fields, and the field lists of the data
\* lines that are not empty and have as many fields as the header, in order.
LinesOf(text) == Split(Trim(text), Newline)
HeaderFields(text) == MapFields(Split(LinesOf(text)[1], Comma))
FieldsOfLine(line) == MapFields(Split(Trim(line), Comma))
IsAcceptedLine(text, i) ==
    /\ Trim(LinesOf(text)[i]) # <<>>
    /\ Len(FieldsOfLine(LinesOf(text)[i])) = Len(HeaderFields(text))
AcceptedLines(text) == {i \in 2..Len(LinesOf(text)) : IsAcceptedLine(text, i)}
\* The n-th accepted line's fields.
AcceptedFields(text, n) ==
    FieldsOfLine(LinesOf(text)[
        CHOOSE i \in AcceptedLines(text) :
            Cardinality({j \in AcceptedLines(text) : j < i}) = n - 1])

\* C1: every row parseCSV returns has the header's field list as its key list
\* (same names, same number, same order), and the rows are one per data line
\* that is not empty and has the header's field count.
C1_RowKeysAreHeaderFields ==
    pc = "parseCSV" =>
        /\ \A i \in 1..Len(rows) : Keys(rows[i]) = HeaderFields(csvText)
        /\ Len(rows) = Cardinality(AcceptedLines(csvText))

\* A field text that is a number as a whole.
IsNumberText(val) == Trim(val) # <<>> /\ ToNumber(Str(val)).t # "NaN"

ExpectedCell(val) ==
    IF val = <<>> THEN Null
    ELSE IF IsNumberText(val) THEN ToNumber(Str(val))
    ELSE Str(val)

\* The header indexes whose name no later header field repeats: the fields
\* whose cell the row holds under that name.
LastOfName(headers) ==
    {j \in 1..Len(headers) : \A m \in (j + 1)..Len(headers) : headers[m] # headers[j]}

\* C2: the cell of a field of an accepted line is the field's number when the
\* text is a number, null when the text is empty, and the text itself otherwise.
C2_CellIsNumberNullOrText ==
    pc = "parseCSV" =>
        \A n \in 1..Len(rows) : \A j \in LastOfName(HeaderFields(csvText)) :
            n <= Cardinality(AcceptedLines(csvText)) =>
                Get(rows[n], HeaderFields(csvText)[j])
                    = ExpectedCell(AcceptedFields(csvText, n)[j])

-----------------------------------------------------------------------------
(* cleanData: the claims.                                                  *)

\* The first occurrence of each distinct element of seq, in order.
DistinctFirst(seq) ==
    LET first == {i \in 1..Len(seq) : \A j \in 1..(i - 1) : seq[j] # seq[i]}
        Nth(n) == CHOOSE i \in first : Cardinality({j \in first : j < i}) = n - 1
    IN  [n \in 1..Cardinality(first) |-> seq[Nth(n)]]

Targets == Range(options.targetColumns)

HasNoBlankTarget(row) == \A t \in Targets : Get(row, t) \notin {Null, Str(<<>>)}

\* C3: drop_rows returns no row with a missing value (null or '') in a target
\* column, and returns every input row without one: the first occurrence of
\* each distinct such row, in order, unchanged.
C3_DropRowsKeepsExactlyCompleteRows ==
    (pc = "cleanData" /\ options.method = "drop_rows") =>
        /\ \A i \in 1..Len(cleaned) : HasNoBlankTarget(cleaned[i])
        /\ cleaned = DistinctFirst(SelectSeq(rows, HasNoBlankTarget))

\* The arithmetic mean of the numbers among values.
ArithmeticMean(values) ==
    LET nums == SelectSeq(values, IsNumber)
    IN  Div(SumOf(nums, 1), Number(Len(nums)))

NumberColumns == {stats[i].name : i \in {j \in 1..Len(stats) : stats[j].type = "number"}}

\* C4: with stats = analyzeColumns(rows), fill_mean on a target column the
\* stats classify as number leaves no cell of the column missing, and every
\* cell of it that was missing holds the arithmetic mean of the column's
\* non-missing input values.
C4_FillMeanFillsWithTheMean ==
    (pc = "cleanData" /\ options.method = "fill_mean" /\ stats = analyzeColumns(rows)) =>
        \A c \in Targets \cap NumberColumns :
            LET present == SelectSeq(Column(rows, c), NotMissing)
            IN  /\ \A j \in 1..Len(cleaned) :
                      /\ NotMissing(Get(cleaned[j], c))
                      /\ Get(cleaned[j], c) \in Range(present) \cup {ArithmeticMean(present)}
                /\ \A i \in 1..Len(rows) :
                      IsMissing(Get(rows[i], c)) =>
                          \E j \in 1..Len(cleaned) :
                              Get(cleaned[j], c) = ArithmeticMean(present)

StatNames == {stats[i].name : i \in 1..Len(stats)}

\* C5: with stats = analyzeColumns(rows), after a fill method no returned row
\* has a missing cell (null, undefined or '') in a target column that has a
\* stat, and every input cell that was not missing keeps its value.
C5_FillLeavesNoMissingCell ==
    (pc = "cleanData" /\ options.method # "drop_rows" /\ stats = analyzeColumns(rows)) =>
        /\ \A c \in Targets \cap StatNames :
              \A i \in 1..Len(cleaned) : NotMissing(Get(cleaned[i], c))
        /\ \A i \in 1..Len(rows) : \E j \in 1..Len(cleaned) :
              \A c \in Range(Keys(rows[i])) :
                  NotMissing(Get(rows[i], c)) => Get(cleaned[j], c) = Get(rows[i], c)

\* The values calculateMode is given for column a, and whether its result was
\* the fill value of the run.
ModeValues == SelectSeq(Column(rows, ColA), NotBlank)
ModeWasUsed ==
    /\ pc = "cleanData" /\ Len(fills) = 1 /\ Len(stats) = 1
    /\ options.method = "fill_mode" \/ stats[1].type = "string"
    /\ ModeValues # <<>>

\* The occurrences of values[i]'s text among all values, and among the first i.
Occurrences(values, i) ==
    Cardinality({j \in 1..Len(values) : StringOf(values[j]) = StringOf(values[i])})
OccurrencesUpTo(values, i) ==
    Cardinality({j \in 1..i : StringOf(values[j]) = StringOf(values[i])})
MostOccurrences(values) ==
    CHOOSE n \in 1..Len(values) :
        /\ \E i \in 1..Len(values) : Occurrences(values, i) = n
        /\ \A i \in 1..Len(values) : Occurrences(values, i) <= n
Least(S) == CHOOSE i \in S : \A j \in S : i <= j

\* The first occurrence of the most frequent text that occurs earliest.
EarliestMostFrequent(values) ==
    Least({i \in 1..Len(values) : Occurrences(values, i) = MostOccurrences(values)})
\* The occurrence with which a text's count first reaches the maximal count.
FirstToReachMost(values) ==
    Least({i \in 1..Len(values) : OccurrencesUpTo(values, i) = MostOccurrences(values)})

\* C6 as stated: the mode used as fill value is the most frequent value (by the
\* count of its text), and among several the one that occurs first.
C6_ModeIsEarliestMostFrequent ==
    ModeWasUsed => fills[1].value = ModeValues[EarliestMostFrequent(ModeValues)]

\* C6 as amended: the mode used as fill value is a most frequent value (by the
\* count of its text), and among several the one whose count reaches the
\* maximal count first in row order.
C6_ModeIsFirstToReachMost ==
    ModeWasUsed =>
        /\ fills[1].value = ModeValues[FirstToReachMost(ModeValues)]
        /\ \E i \in 1..Len(ModeValues) :
              /\ ModeValues[i] = fills[1].value
              /\ Occurrences(ModeValues, i) = MostOccurrences(ModeValues)

\* A run whose fill value is a mode that tied with a value occurring earlier,
\* and that filled a missing cell.
C6_Witness ==
    /\ ModeWasUsed
    /\ StringOf(ModeValues[EarliestMostFrequent(ModeValues)]) # StringOf(fills[1].value)
    /\ \E i \in 1..Len(rows) : IsBlank(Get(rows[i], ColA))
    /\ \E i \in 1..Len(cleaned) : Get(cleaned[i], ColA) = fills[1].value

\* The rows before the final pass: what the drop or the fills left.
BeforeDedupe(places) ==
    IF options.method = "drop_rows" THEN SelectSeq(rows, HasNoBlankTarget)
    ELSE FillColumns(rows, <<>>, stats, options, places, 1).rows

\* C7: the returned rows hold no two equal rows, no two rows that differ are
\* merged, and they are the first occurrences of the distinct rows of the
\* cleaned sequence, in order.
C7_DedupeKeepsDistinctRows ==
    pc = "cleanData" =>
        /\ \A i, j \in 1..Len(cleaned) : i # j => cleaned[i] # cleaned[j]
        /\ \E places \in CleanPlaces : cleaned = DistinctFirst(BeforeDedupe(places))

Without(seq, x) == LET Keep(y) == y # x IN SelectSeq(seq, Keep)

WithoutTarget(c) == [options EXCEPT !.targetColumns = Without(@, c)]

\* C8 as stated: for every method, a target column without a stat is a no-op:
\* the result is the one with the column removed from targetColumns.
C8_TargetWithoutStatIsNoOp ==
    pc = "cleanData" =>
        \A c \in Targets \ StatNames :
            \E places \in CleanPlaces :
                cleaned = cleanData(rows, stats, WithoutTarget(c), places)

\* C8 as amended: for every fill method (fill_mean, fill_median, fill_mode), a
\* target column without a stat is a no-op.
C8_FillTargetWithoutStatIsNoOp ==
    (pc = "cleanData" /\ options.method # "drop_rows") =>
        \A c \in Targets \ StatNames :
            \E places \in CleanPlaces :
                cleaned = cleanData(rows, stats, WithoutTarget(c), places)

\* A fill run with a target column that has no stat and a missing cell, next
\* to a target column that has a stat and whose missing cell was filled.
C8_Witness ==
    /\ pc = "cleanData" /\ options.method # "drop_rows"
    /\ \E c \in Targets \ StatNames :
          \E i \in 1..Len(cleaned) : IsBlank(Get(cleaned[i], c))
    /\ \E c \in Targets \cap StatNames :
          /\ \E i \in 1..Len(rows) : IsBlank(Get(rows[i], c))
          /\ \A i \in 1..Len(cleaned) : NotMissing(Get(cleaned[i], c))

-----------------------------------------------------------------------------
(* trainModel: the claims.                                                 *)

HasNumbers(row) ==
    /\ Get(row, config.targetColumn).t \in {"number", "Infinity", "NaN"}
    /\ \A f \in Range(config.featureColumns) :
          Get(row, f).t \in {"number", "Infinity", "NaN"}

\* V: the rows whose target and feature cells are numbers, and s = floor(|V| * splitRatio).
ValidRows == SelectSeq(rows, HasNumbers)
FloorOfShare == (Len(ValidRows) * config.splitRatio.n) \div config.splitRatio.d

IsClose(a, b) ==
    /\ a.t = "number" /\ b.t = "number"
    /\ ~Less(Num(1, 10), AbsValue(Sub(a, b)))

IsScenarioRun ==
    /\ pc = "trainModel"
    /\ rows = parseCSV(ScenarioCsv)
    /\ config = [targetColumn |-> ColB, featureColumns |-> <<ColA>>, splitRatio |-> Num(4, 5)]

\* C10: training on the five rows of b = 2a with target b, features [a] and
\* splitRatio 0.8 yields r2 close to 1 and mse close to 0.
C10_ScenarioFitsNearPerfectly ==
    IsScenarioRun =>
        /\ IsClose(metrics.r2, Number(1))
        /\ IsClose(metrics.mse, Number(0))

-----------------------------------------------------------------------------
(* analyzeColumns: the claims.                                             *)

\* The cells of a column that are not missing, and those of them that are numbers.
PresentCells(c) ==
    {i \in 1..Len(rows) : Get(rows[i], c) \notin {Null, Undefined, Str(<<>>)}}
NumberCells(c) ==
    {i \in PresentCells(c) : Get(rows[i], c).t \in {"number", "Infinity", "NaN"}}

\* C11: a column is classified number if and only if the count of its
\* non-missing cells that are numbers is strictly more than 0.8 of the count of
\* its non-missing cells; exactly 0.8 gives string, and so does a column with
\* no non-missing cell.
C11_NumberIffShareAboveFourFifths ==
    pc = "analyzeColumns" =>
        \A i \in 1..Len(stats) :
            /\ stats[i].type \in {"number", "string"}
            /\ stats[i].type = "number"
                  <=> 5 * Cardinality(NumberCells(stats[i].name))
                          > 4 * Cardinality(PresentCells(stats[i].name))
            /\ PresentCells(stats[i].name) = {} => stats[i].type = "string"

\* A column with a missing cell whose numbers are exactly 0.8 of its
\* non-missing cells, classified string.
C11_Witness ==
    /\ pc = "analyzeColumns" /\ Len(stats) = 1
    /\ Cardinality(PresentCells(ColA)) < Len(rows)
    /\ 5 * Cardinality(NumberCells(ColA)) = 4 * Cardinality(PresentCells(ColA))
    /\ NumberCells(ColA) # {}
    /\ stats[1].type = "string"

\* C12: for a text that parses to at least one row, analyzeColumns returns as
\* many stats as the header line has fields, one per header field in order.
C12_OneStatPerHeaderField ==
    (pc = "analyzeColumns" /\ csvText # <<>> /\ rows # <<>>) =>
        /\ Len(stats) = Len(HeaderFields(csvText))
        /\ \A i \in 1..Len(stats) : stats[i].name = HeaderFields(csvText)[i]

-----------------------------------------------------------------------------
(* parseCSV: the round trip.                                               *)

\* C13: parsing the serialization of the rows parseCSV returned for a text
\* returns those rows again: same rows, same keys, same cells.
C13_ReparseReturnsTheRows ==
    pc = "reparsed" => rows = parseCSV(csvText)

-----------------------------------------------------------------------------
(* cleanData: idempotence.                                                 *)

\* C14: with no target column, cleanData applied to its own result returns
\* that result: the same rows in the same order.
C14_CleanTwiceIsCleanOnce ==
    [][(pc = "cleanData" /\ pc' = "cleanedAgain" /\ options.targetColumns = <<>>)
          => cleaned' = cleaned]_vars

\* A second run without target columns on a result from which the first run
\* removed a row and kept two.
C14_Witness ==
    /\ pc = "cleanedAgain"
    /\ options.targetColumns = <<>>
    /\ Len(cleaned) >= 2
    /\ Len(cleaned) < Len(rows)

-----------------------------------------------------------------------------
(* parseCSV: totality.                                                     *)

\* The lines of the text as given that hold a character other than white space.
NonEmptyLines(text) ==
    LET raw == Split(text, Newline)
    IN  {i \in 1..Len(raw) : \E j \in 1..Len(raw[i]) : raw[i][j] \notin WhiteSpace}

IsRow(row) ==
    \A i \in 1..Len(row) :
        /\ row[i].v.t \in {"number", "Infinity", "string", "null"}
        /\ \A j \in 1..Len(row) : i # j => row[i].k # row[j].k

\* C15: parseCSV returns for every text (a sequence of rows, no error), and it
\* returns the empty sequence for a text with fewer than 2 non-empty lines.
C15_ParseIsTotal ==
    /\ pc = "input" =>
          \A i \in 1..Len(parseCSV(csvText)) : IsRow(parseCSV(csvText)[i])
    /\ pc = "parseCSV" =>
          /\ \A i \in 1..Len(rows) : IsRow(rows[i])
          /\ Cardinality(NonEmptyLines(csvText)) < 2 => rows = <<>>

\* A parsed text of two lines of which one is empty: a header after an empty
\* line, or a header before one.
C15_Witness ==
    /\ pc = "parseCSV"
    /\ Len(Split(csvText, Newline)) >= 2
    /\ Cardinality(NonEmptyLines(csvText)) = 1
    /\ rows = <<>>

-----------------------------------------------------------------------------
(* trainModel: degenerate splits.                                          *)

IsNotFinite(v) == v.t \in {"NaN", "Infinity"}

\* C16: with no valid row trainModel returns metrics with no prediction and
\* with mse, mae and r2 that are NaN or infinite; with an empty training set it
\* returns one prediction per valid row. It returns in both cases.
C16_DegenerateSplitsReturn ==
    pc = "trainModel" =>
        /\ ValidRows = <<>> =>
              /\ metrics.predictions = <<>>
              /\ IsNotFinite(metrics.mse)
              /\ IsNotFinite(metrics.mae)
              /\ IsNotFinite(metrics.r2)
        /\ FloorOfShare = 0 =>
              /\ trainSet = <<>>
              /\ Len(metrics.predictions) = Len(ValidRows)
              /\ \A i \in 1..Len(ValidRows) :
                    metrics.predictions[i].actual = Get(ValidRows[i], config.targetColumn)

\* A run on rows of which none is valid.
C16_Witness ==
    /\ pc = "trainModel"
    /\ Len(rows) >= 2
    /\ ValidRows = <<>>
    /\ metrics.predictions = <<>>
    /\ metrics.mse = NaN

-----------------------------------------------------------------------------
(* generateMLTips and handleGetTips.                                       *)

TipsTexts == {MissingKeyText, NoTipsText, ApiErrorText} \cup (RemoteTexts \ {"undefined"})

\* C17: a call of generateMLTips never rejects and resolves to a string; without
\* an API key it resolves to the fixed text and generateContent is not called;
\* when generateContent fails it resolves to the fixed text; and a handleGetTips
\* that set isLoadingTips sets it back to false.
C17_TipsAlwaysResolve ==
    /\ [](app.tipsCall # "rejected")
    /\ [](app.tipsCall = "settled" => app.tipsValue \in TipsTexts)
    /\ [](~app.apiKey => app.remote = "none")
    /\ [](~app.apiKey /\ app.tipsCall = "settled" => app.tipsValue = MissingKeyText)
    /\ [](app.remote = "rejected" /\ app.tipsCall = "settled" =>
              app.tipsValue = ApiErrorText)
    /\ (app.tipsCall = "pending" ~> app.tipsCall = "settled")
    /\ (app.isLoadingTips ~> ~app.isLoadingTips)

\* handleGetTips has returned after a generateContent that failed.
C17_Witness ==
    /\ app.remote = "rejected"
    /\ app.tipsCall = "none"
    /\ app.geminiTips = ApiErrorText
    /\ ~app.isLoadingTips

-----------------------------------------------------------------------------
(* The wizard's steps, timers and configuration.                           *)

\* C18: unless the page is reloaded, a step of the wizard leaves currentStep as
\* it is or moves it to the next step, and past the cleaning step it leaves the
\* uploaded rows as they are.
C18_StepNeverGoesBack ==
    [][\/ StartOver
       \/ /\ app'.currentStep \in {app.currentStep, app.currentStep + 1}
          /\ app.currentStep > CLEANING => rows' = rows]_vars

\* C19: isTraining is true exactly while a timer of handleTrain is pending, and
\* at most one timer is pending.
C19_OneTrainingAtATime ==
    /\ app.isTraining <=> app.timers # <<>>
    /\ Len(app.timers) <= 1

\* C20: a training that was started has a target, a feature, and a target that
\* is not among its features.
C20_TargetIsNoFeature ==
    \A i \in 1..Len(app.timers) :
        LET started == app.timers[i].config
        IN  /\ started.targetColumn # <<>>
            /\ started.featureColumns # <<>>
            /\ started.targetColumn \notin Range(started.featureColumns)

-----------------------------------------------------------------------------
(* cleanData: the order of the target columns.                             *)

\* C21: cleanData on the same rows, stats and method returns the same row
\* sequence for every order of the same target columns, and for a column
\* listed more than once.
C21_TargetOrderIsNoMatter ==
    [][(pc = "cleanData" /\ pc' = "cleanedReordered") => cleaned' = cleaned]_vars

\* A fill of both columns, each with a blank cell and a stat, run again with
\* the columns in the other order.
C21_Witness ==
    /\ pc = "cleanedReordered"
    /\ options.method # "drop_rows"
    /\ Range(options.targetColumns) = {ColA, ColB}
    /\ Len(stats) = 2
    /\ \E i \in 1..Len(rows) : IsBlank(Get(rows[i], ColA))
    /\ \E i \in 1..Len(rows) : IsBlank(Get(rows[i], ColB))
    /\ \E i \in 1..Len(rows) : NotBlank(Get(rows[i], ColA)) /\ NotBlank(Get(rows[i], ColB))
    /\ fills[1].col = ColB
    /\ fills[1].value # fills[2].value

=============================================================================
